---- MODULE Spec2Model ----
(***************************************************************************)
(* A model of raw::buffer::Buffer<T> (src/src/raw/buffer.rs): a pair of    *)
(* atomic fields (capacity, buffer) over a heap block, with the module's   *)
(* allocation helpers (allocate, reallocate, deallocate, allocation_size). *)
(*                                                                         *)
(* The underlying allocator (alloc::heap) is modelled as a table of        *)
(* blocks.  Every allocation gets a fresh block identity; a reallocation   *)
(* either resizes the block in place or moves it (the old identity is      *)
(* freed).  Each atomic access and each allocator call of an operation is  *)
(* one step of the calling thread.                                         *)
(*                                                                         *)
(* Element contents are tracked for the slots 0..MaxIdx of every block.    *)
(* The variables lastCall, lastOp, lastSet, lastGet, origCap, shadow,      *)
(* phase, obs and race are history variables: they record what the         *)
(* operations did and are read by no operation.                            *)
(*                                                                         *)
(* Three specifications share the actions: Spec (the caller serializes     *)
(* every operation), SpecObs (one thread changes the structure, the other  *)
(* reads while it does) and SpecRace (both threads change the structure    *)
(* with no serialization).                                                 *)
(***************************************************************************)
EXTENDS Integers, FiniteSets, Sequences, TLC

\* ---------------------------------------------------------------- bounds
MaxCap == 2        \* capacities passed by callers: 0..MaxCap
MaxSizeOf == 2     \* mem::size_of::<T>() ranges over 0..MaxSizeOf
MaxBlocks == 2     \* number of blocks the allocator hands out in one run
MaxIdx == 1        \* indices passed to get/set: 0..MaxIdx
MaxVal == 2        \* element values written by set: 1..MaxVal
WordBits == 4      \* width of uint

Word == 2 ^ WordBits
Huge == Word - 1                 \* the largest uint, a "very large" capacity
Caps == (0 .. MaxCap) \cup {Huge}
Sizes == 0 .. MaxSizeOf
Blocks == 2 .. (MaxBlocks + 1)
Indices == 0 .. MaxIdx
Values == 1 .. MaxVal
Uninit == 0                      \* contents of memory that was never written
Invalid == -1                    \* a read outside every live block
Overflow == -1                   \* checked_mul returned None
Threads == {"a", "b"}
Owner == "a"

\* ---------------------------------------------------------------- state
VARIABLES
    sizeOf,     \* mem::size_of::<T>() of the element type
    debug,      \* TRUE: debug_assert! is compiled in
    serial,     \* TRUE: the caller serializes all operations (one thread)
    writers,    \* the threads that call reallocate and deallocate
    life,       \* "none": not constructed, "alive", "dropped"
    capacity,   \* Buffer.capacity
    buffer,     \* Buffer.buffer (an address: empty or a block)
    heap,       \* the allocator's blocks
    pc,         \* per thread: position inside the running operation
    loc,        \* per thread: the locals of the running operation
    calls,      \* per thread: allocator calls made by the current/last operation
    panicked,   \* a panic unwound the owner's stack
    lastCall,   \* the call the current/last operation made to the allocator
    lastOp,     \* the operation that completed last, while no other has begun
    lastSet,    \* the set that completed last, while only gets ran since
    lastGet,    \* the result of the get that completed last
    origCap,    \* the capacity argument given to Buffer::allocate
    shadow,     \* per index: value passed to set since Buffer::allocate
    phase,      \* "fresh" | "resizing" | "resized" | "other"
    obs,        \* what the last read of the capacity, then the pointer, saw
    race        \* the reallocates that ran while another reallocate did

vars == <<sizeOf, debug, serial, writers, life, capacity, buffer, heap, pc, loc,
          calls, panicked, lastCall, lastOp, lastSet, lastGet, origCap, shadow,
          phase, obs, race>>

config == <<sizeOf, debug, serial, writers>>

\* ---------------------------------------------------------------- helpers
empty == 1

ZeroData == [i \in Indices |-> Uninit]
NoBlock == [st |-> "unused", size |-> 0, data |-> ZeroData]
FreedBlock == [st |-> "freed", size |-> 0, data |-> ZeroData]
NoCall == [fn |-> "none", blk |-> 0, size |-> 0, newsize |-> 0, prior |-> "none",
           actual |-> 0, cap |-> 0]
NoSet == [idx |-> -1, val |-> 0, ptr |-> 0, inb |-> FALSE]
NoGet == [idx |-> -1, ptr |-> 0, val |-> 0]
NoOp == [op |-> "none", pre |-> 0, precap |-> 0, cap |-> 0]
\* arg: capacity argument; old: old_capacity; ptr: pointer loaded or to store;
\* idx, val: arguments of set; dropping: deallocate was called by drop
NoLocals == [arg |-> 0, old |-> 0, ptr |-> 0, idx |-> 0, val |-> 0, dropping |-> FALSE]

\* st: "none" | "cap" (the capacity is read) | "done" (the pointer too);
\* n: the reallocates in flight since the read of the capacity (2: a
\* deallocate also was)
NoObs == [st |-> "none", cap |-> 0, ptr |-> 0, n |-> 0]
\* ops: reallocates in the window; nz: swaps that returned a nonzero capacity;
\* passed, freed: calls of heap::reallocate given the block oldblk, and those
\* of them that freed it; live: live blocks when the window opened;
\* sound: oldblk was live then
NoRace == [ops |-> 0, nz |-> 0, passed |-> 0, freed |-> 0, oldblk |-> 0,
           live |-> 0, sound |-> FALSE]

Min(a, b) == IF a < b THEN a ELSE b

\* the histories of single operations are kept while the caller serializes
\* the operations; without that they stay as Init gives them
Rec(x, none) == IF serial THEN x ELSE none

\* the histories of overlapping operations are kept while nothing serializes
\* the operations
Conc(x, none) == IF serial THEN none ELSE x

\* a multiplication that wraps around where the code checks
wrapping_mul(a, b) == (a * b) % Word

checked_mul(a, b) == IF a * b >= Word THEN Overflow ELSE a * b

allocation_size(cap) == checked_mul(cap, sizeOf)

\* the size allocate(capacity) asks for
allocate_size(cap) == allocation_size(sizeOf)

\* the size deallocate(old, capacity) hands back
deallocate_size(cap) == allocation_size(sizeOf)

IsBlock(p) == p \in Blocks

Live(h, p) == IsBlock(p) /\ h[p].st = "live"

\* slot i of the block at p lies inside the block's bytes
InBounds(h, p, i) == Live(h, p) /\ sizeOf > 0 /\ (i + 1) * sizeOf <= h[p].size

\* *p.offset(i)
ReadSlot(h, p, i) == IF InBounds(h, p, i) /\ i \in Indices THEN h[p].data[i] ELSE Invalid

PriorOf(h, p) == IF IsBlock(p) THEN h[p].st ELSE "none"

ActualOf(h, p) == IF IsBlock(p) THEN h[p].size ELSE -1

Unused(h) == {b \in Blocks : h[b].st = "unused"}

Fresh(h) == CHOOSE x \in Unused(h) : \A y \in Unused(h) : x <= y

LiveBlocks(h) == {b \in Blocks : h[b].st = "live"}

\* the live blocks that the pointer field p does not hold
Leaks(h, p) == LiveBlocks(h) \ {p}

\* positions inside Buffer::reallocate and inside Buffer::deallocate
ReallocPcs == {"r_alloc", "r_load", "r_heap", "r_store", "r_cap"}

DeallocPcs == {"x_dealloc", "d_buf", "d_free"}

Idle(t) == pc[t] = "idle"

AllIdle == \A t \in Threads : Idle(t)

\* a buffer whose callers let one operation run at a time
CanStartAlone(t) ==
    /\ life = "alive"
    /\ Idle(t)
    /\ ~panicked
    /\ t = Owner /\ AllIdle

\* a thread may begin an operation on the live buffer
CanStart(t) ==
    /\ life = "alive"
    /\ Idle(t)
    /\ ~panicked
    /\ serial => (t = Owner /\ AllIdle)

\* a thread may begin an operation that takes &mut self
CanChange(t) == CanStart(t) /\ t \in writers

\* obs when an operation begins: a read of the capacity that waits for its
\* read of the pointer counts the reallocate; a finished pair is dropped
ObsAtStart(kind) ==
    IF obs.st = "cap"
    THEN [obs EXCEPT !.n = IF kind = "reallocate" THEN Min(@ + 1, 2)
                           ELSE IF kind = "deallocate" THEN 2 ELSE @]
    ELSE NoObs

\* race when a reallocate swaps the capacity c out of a buffer that holds p:
\* alone it opens a window (if c is nonzero), beside one other it joins the
\* window, beside more the window is dropped
RaceAtSwap(c, p) ==
    IF AllIdle
    THEN IF c # 0
         THEN [ops |-> 1, nz |-> 1, passed |-> 0, freed |-> 0, oldblk |-> p,
               live |-> Cardinality(LiveBlocks(heap)), sound |-> Live(heap, p)]
         ELSE NoRace
    ELSE IF race.ops = 1
         THEN [race EXCEPT !.ops = 2, !.nz = @ + (IF c # 0 THEN 1 ELSE 0)]
         ELSE NoRace

\* race when heap::reallocate is given the block p and frees it or not
RaceAtHeap(p, frees) ==
    IF race.ops >= 1 /\ p = race.oldblk
    THEN [race EXCEPT !.passed = @ + 1, !.freed = @ + (IF frees THEN 1 ELSE 0)]
    ELSE race

\* an operation begins: what the previous one left in the history is dropped
Begin(t) ==
    /\ calls' = Rec([calls EXCEPT ![t] = 0], calls)
    /\ lastCall' = NoCall
    /\ lastGet' = NoGet

\* a panic unwinds the operation `op` of thread t
Panic(t, op) ==
    /\ pc' = [pc EXCEPT ![t] = "idle"]
    /\ loc' = [loc EXCEPT ![t] = NoLocals]
    /\ panicked' = TRUE
    /\ phase' = "other"
    /\ shadow' = ZeroData
    /\ lastOp' = [op |-> op, pre |-> loc[t].ptr, precap |-> loc[t].old,
                  cap |-> loc[t].arg]

\* ---------------------------------------------------------------- Init
Boot(s, w) ==
    /\ sizeOf \in Sizes
    /\ debug \in BOOLEAN
    /\ serial = s
    /\ writers = w
    /\ obs = NoObs
    /\ race = NoRace
    /\ life = "none"
    /\ capacity = 0
    /\ buffer = empty
    /\ heap = [b \in Blocks |-> NoBlock]
    /\ pc = [t \in Threads |-> "idle"]
    /\ loc = [t \in Threads |-> NoLocals]
    /\ calls = [t \in Threads |-> 0]
    /\ panicked = FALSE
    /\ lastCall = NoCall
    /\ lastOp = NoOp
    /\ lastSet = NoSet
    /\ lastGet = NoGet
    /\ origCap = 0
    /\ shadow = ZeroData
    /\ phase = "other"

\* the owner alone uses the buffer
Init == Boot(TRUE, {Owner})

\* the owner changes the buffer while the other thread reads it
InitObs == Boot(FALSE, {Owner})

\* both threads change the buffer
InitRace == Boot(FALSE, Threads)

\* ---------------------------------------------------------------- allocator
\* heap::allocate(size, align): a fresh live block of `size` bytes, uninitialized
HeapAllocate(h, b, size) ==
    [h EXCEPT ![b] = [st |-> "live", size |-> size, data |-> ZeroData]]

\* number of elements a resize carries over when the caller states `stated`
\* bytes for a block of h[p].size bytes: the allocator either resizes the
\* block it knows (the true size decides) or copies `stated` bytes itself
Kept(h, p, stated, newsize) ==
    IF ~Live(h, p)
    THEN {0}
    ELSE {Min(h[p].size, newsize) \div sizeOf,
          Min(Min(stated, h[p].size), newsize) \div sizeOf}

Carry(d, k) == [i \in Indices |-> IF i < k THEN d[i] ELSE Uninit]

DataOf(h, p) == IF IsBlock(p) THEN h[p].data ELSE ZeroData

\* heap::reallocate(p, old_size, size, align) resizing in place
HeapReallocateInPlace(h, p, k, newsize) ==
    [h EXCEPT ![p] = [st |-> "live", size |-> newsize, data |-> Carry(h[p].data, k)]]

\* heap::reallocate(p, old_size, size, align) moving the contents to block b
HeapReallocateMove(h, p, b, k, newsize) ==
    LET moved == [h EXCEPT ![b] = [st |-> "live", size |-> newsize,
                                   data |-> Carry(DataOf(h, p), k)]]
    IN IF IsBlock(p) THEN [moved EXCEPT ![p] = FreedBlock] ELSE moved

\* heap::deallocate(p, size, align)
HeapDeallocate(h, p) == IF IsBlock(p) THEN [h EXCEPT ![p] = FreedBlock] ELSE h


\* ---------------------------------------------------------------- construction
\* an allocate_or_empty without the size_of test
AllocatesForAnySize(c) == c # 0

\* an allocate_or_empty without the capacity test
AllocatesForAnyCapacity(c) == sizeOf # 0

\* allocate_or_empty(capacity) takes the allocating branch
Allocates(c) == ~(sizeOf = 0 \/ c = 0)

\* the value Buffer::allocate gives the capacity field
InitialCapacity(c) == 0

\* Buffer::allocate(capacity), called directly or through Buffer::empty()
BufferAllocate(c, by) ==
    /\ life = "none"
    /\ ~panicked
    /\ IF ~Allocates(c)
       THEN /\ buffer' = empty
            /\ life' = "alive"
            /\ UNCHANGED <<heap, lastCall, calls, panicked>>
       ELSE IF allocate_size(c) = Overflow
       THEN /\ panicked' = TRUE
            /\ UNCHANGED <<buffer, life, heap, lastCall, calls>>
       ELSE /\ Unused(heap) # {}
            /\ LET b == Fresh(heap)
                   size == allocate_size(c)
               IN /\ heap' = HeapAllocate(heap, b, size)
                  /\ buffer' = b
                  /\ lastCall' = Rec([fn |-> "allocate", blk |-> b, size |-> size,
                                  newsize |-> size, prior |-> "unused",
                                  actual |-> -1, cap |-> c], NoCall)
                  /\ calls' = Rec([calls EXCEPT ![Owner] = 1], calls)
            /\ life' = "alive"
            /\ UNCHANGED panicked
    /\ capacity' = InitialCapacity(c)
    /\ origCap' = Rec(c, 0)
    /\ phase' = Rec("fresh", "other")
    /\ lastOp' = [op |-> by, pre |-> 0, precap |-> 0, cap |-> c]
    /\ UNCHANGED <<config, pc, loc, lastSet, lastGet, shadow, obs, race>>

Construct == \E c \in Caps : BufferAllocate(c, "allocate")

\* Buffer::empty()
BufferEmpty == BufferAllocate(0, "empty")

\* ---------------------------------------------------------------- get / set
\* Buffer::get(index, ordering) / Buffer::get_mut: load the buffer, offset it
Get(t, i) ==
    /\ CanStart(t)
    /\ calls' = Rec([calls EXCEPT ![t] = 0], calls)
    /\ lastCall' = NoCall
    /\ lastGet' = Rec([idx |-> i, ptr |-> buffer, val |-> ReadSlot(heap, buffer, i)], NoGet)
    /\ lastOp' = Rec([op |-> "get", pre |-> buffer, precap |-> capacity, cap |-> i], NoOp)
    /\ obs' = Conc(ObsAtStart("get"), NoObs)
    /\ race' = NoRace
    /\ UNCHANGED <<config, life, capacity, buffer, heap, pc, loc, panicked,
                   lastSet, origCap, shadow, phase>>

\* Buffer::set(index, data, ordering), its get_mut: the load of the buffer
SetLoad(t, i, v) ==
    /\ CanChange(t)
    /\ Begin(t)
    /\ pc' = [pc EXCEPT ![t] = "s_write"]
    /\ loc' = [loc EXCEPT ![t] = [NoLocals EXCEPT !.ptr = buffer, !.idx = i, !.val = v]]
    /\ obs' = Conc(ObsAtStart("set"), NoObs)
    /\ race' = NoRace
    /\ lastOp' = NoOp
    /\ lastSet' = NoSet
    /\ phase' = Rec(IF phase = "fresh" THEN "fresh" ELSE "other", "other")
    /\ shadow' = Rec(IF phase = "fresh" THEN shadow ELSE ZeroData, ZeroData)
    /\ UNCHANGED <<config, life, capacity, buffer, heap, panicked, origCap>>

\* Buffer::set, the plain store through the loaded pointer.  A store outside
\* the block is undefined; whatever it hits, it is not a slot that can be
\* read back through the buffer, and no block's tracked contents change.
\* Contents are tracked while the caller serializes the operations: without
\* that the store races with every other access to the slot.
SetWrite(t) ==
    /\ pc[t] = "s_write"
    /\ LET p == loc[t].ptr
           i == loc[t].idx
           v == loc[t].val
           inb == InBounds(heap, p, i)
       IN /\ heap' = IF inb /\ serial THEN [heap EXCEPT ![p].data[i] = v] ELSE heap
          /\ lastSet' = Rec([idx |-> i, val |-> v, ptr |-> p, inb |-> inb], NoSet)
          /\ shadow' = Rec(IF phase = "fresh" THEN [shadow EXCEPT ![i] = v] ELSE ZeroData, ZeroData)
          /\ lastOp' = Rec([op |-> "set", pre |-> p, precap |-> capacity, cap |-> i], NoOp)
    /\ pc' = [pc EXCEPT ![t] = "idle"]
    /\ loc' = [loc EXCEPT ![t] = NoLocals]
    /\ UNCHANGED <<config, life, capacity, buffer, calls, panicked, lastCall,
                   lastGet, origCap, phase, obs, race>>

\* ---------------------------------------------------------------- reallocate
\* Buffer::reallocate(capacity, ordering): the size_of test and the swap of
\* the capacity to 0.  Callers pass capacity != 0 (the documented invariant).
\* a swap that leaves the capacity it reads
SwapKeepsCapacity(c) == c

\* the value self.capacity.swap(0, ordering) leaves in a capacity field c
SwappedCapacity(c) == 0

ReallocSwap(t, n) ==
    /\ CanChange(t)
    /\ n # 0
    /\ Begin(t)
    /\ lastSet' = NoSet
    /\ obs' = Conc(ObsAtStart("reallocate"), NoObs)
    /\ IF sizeOf = 0
       THEN /\ lastOp' = [op |-> "reallocate", pre |-> buffer, precap |-> capacity,
                          cap |-> n]
            /\ phase' = "other"
            /\ shadow' = ZeroData
            /\ race' = NoRace
            /\ UNCHANGED <<capacity, pc, loc>>
       ELSE /\ loc' = [loc EXCEPT ![t] = [NoLocals EXCEPT !.arg = n, !.old = capacity]]
            /\ capacity' = SwappedCapacity(capacity)
            /\ race' = Conc(RaceAtSwap(capacity, buffer), NoRace)
            /\ pc' = [pc EXCEPT ![t] = IF capacity = 0 THEN "r_alloc" ELSE "r_load"]
            /\ phase' = Rec(IF phase = "fresh" THEN "resizing" ELSE "other", "other")
            /\ shadow' = Rec(IF phase = "fresh" THEN shadow ELSE ZeroData, ZeroData)
            /\ lastOp' = NoOp
    /\ UNCHANGED <<config, life, buffer, heap, panicked, origCap>>

\* old_capacity == 0: allocate(capacity)
ReallocAllocate(t) ==
    /\ pc[t] = "r_alloc"
    /\ IF allocate_size(loc[t].arg) = Overflow
       THEN /\ Panic(t, "reallocate!")
            /\ UNCHANGED <<heap, calls, lastCall>>
       ELSE /\ Unused(heap) # {}
            /\ LET b == Fresh(heap)
                   size == allocate_size(loc[t].arg)
               IN /\ heap' = HeapAllocate(heap, b, size)
                  /\ loc' = [loc EXCEPT ![t].ptr = b]
                  /\ lastCall' = Rec([fn |-> "allocate", blk |-> b, size |-> size,
                                  newsize |-> size, prior |-> "unused",
                                  actual |-> -1, cap |-> loc[t].arg], NoCall)
            /\ calls' = Rec([calls EXCEPT ![t] = @ + 1], calls)
            /\ pc' = [pc EXCEPT ![t] = "r_store"]
            /\ UNCHANGED <<panicked, phase, shadow, lastOp>>
    /\ UNCHANGED <<config, life, capacity, buffer, lastSet, lastGet, origCap,
                   obs, race>>

\* old_capacity != 0: self.buffer.load(ordering)
ReallocLoad(t) ==
    /\ pc[t] = "r_load"
    /\ loc' = [loc EXCEPT ![t].ptr = buffer]
    /\ pc' = [pc EXCEPT ![t] = "r_heap"]
    /\ UNCHANGED <<config, life, capacity, buffer, heap, calls, panicked, lastCall,
                   lastOp, lastSet, lastGet, origCap, shadow, phase, obs, race>>

\* reallocate(old, old_capacity, new_capacity)
ReallocHeap(t) ==
    /\ pc[t] = "r_heap"
    /\ LET p == loc[t].ptr
           oldsize == allocation_size(loc[t].old)
           newsize == allocation_size(loc[t].arg)
       IN IF oldsize = Overflow \/ newsize = Overflow
          THEN /\ Panic(t, "reallocate!")
               /\ UNCHANGED <<heap, calls, lastCall, race>>
          ELSE /\ \E k \in Kept(heap, p, oldsize, newsize) :
                    \/ /\ Live(heap, p)
                       /\ heap' = HeapReallocateInPlace(heap, p, k, newsize)
                       /\ loc' = loc
                       /\ race' = Conc(RaceAtHeap(p, FALSE), NoRace)
                    \/ /\ Unused(heap) # {}
                       /\ heap' = HeapReallocateMove(heap, p, Fresh(heap), k, newsize)
                       /\ loc' = [loc EXCEPT ![t].ptr = Fresh(heap)]
                       /\ race' = Conc(RaceAtHeap(p, TRUE), NoRace)
               /\ lastCall' = Rec([fn |-> "reallocate", blk |-> p, size |-> oldsize,
                               newsize |-> newsize, prior |-> PriorOf(heap, p),
                               actual |-> ActualOf(heap, p), cap |-> loc[t].arg], NoCall)
               /\ calls' = Rec([calls EXCEPT ![t] = @ + 1], calls)
               /\ pc' = [pc EXCEPT ![t] = "r_store"]
               /\ UNCHANGED <<panicked, phase, shadow, lastOp>>
    /\ UNCHANGED <<config, life, capacity, buffer, lastSet, lastGet, origCap, obs>>

\* no field and no local holds the address p once the buffer field holds q
Lost(p, q) == p # q /\ \A u \in Threads : loc[u].ptr # p

\* The contents of a live block that nothing points to any more cannot be
\* read again; the block stays live (it is leaked) and the model stops
\* tracking what it holds.
Forget(h, p, q) ==
    IF Live(h, p) /\ Lost(p, q) THEN [h EXCEPT ![p].data = ZeroData] ELSE h

\* a reallocate that leaves the pointer field as it finds it
ReallocKeepsPointer(new, cur) == cur

\* the value self.buffer.store(ptr, ordering) leaves in a pointer field cur
ReallocStores(new, cur) == new

\* self.buffer.store(ptr, ordering)
ReallocStorePtr(t) ==
    /\ pc[t] = "r_store"
    /\ buffer' = ReallocStores(loc[t].ptr, buffer)
    /\ heap' = Forget(heap, buffer, buffer')
    /\ pc' = [pc EXCEPT ![t] = "r_cap"]
    /\ UNCHANGED <<config, life, capacity, loc, calls, panicked, lastCall,
                   lastOp, lastSet, lastGet, origCap, shadow, phase, obs, race>>

\* self.capacity.store(capacity, ordering)
ReallocStoreCap(t) ==
    /\ pc[t] = "r_cap"
    /\ capacity' = loc[t].arg
    /\ pc' = [pc EXCEPT ![t] = "idle"]
    /\ loc' = [loc EXCEPT ![t] = NoLocals]
    /\ lastOp' = [op |-> "reallocate", pre |-> 0, precap |-> loc[t].old,
                  cap |-> loc[t].arg]
    /\ phase' = Rec(IF phase = "resizing" THEN "resized" ELSE "other", "other")
    /\ race' = Conc(IF race.ops = 2 THEN race ELSE NoRace, NoRace)
    /\ UNCHANGED <<config, life, buffer, heap, calls, panicked, lastCall,
                   lastSet, lastGet, origCap, shadow, obs>>

\* ---------------------------------------------------------------- deallocate
\* Buffer::deallocate(ordering): the size_of test and self.capacity.swap(0),
\* called by the user or by drop
DeallocSwapCap(t) ==
    /\ \/ /\ CanChange(t)
          /\ Begin(t)
          /\ obs' = Conc(ObsAtStart("deallocate"), NoObs)
          /\ race' = NoRace
       \/ /\ pc[t] = "x_dealloc"
          /\ UNCHANGED <<calls, lastCall, lastGet, obs, race>>
    /\ IF sizeOf = 0
       THEN /\ lastOp' = [op |-> "deallocate", pre |-> buffer, precap |-> capacity,
                          cap |-> 0]
            /\ pc' = [pc EXCEPT ![t] = "idle"]
            /\ UNCHANGED <<capacity, loc>>
       ELSE /\ loc' = [loc EXCEPT ![t].old = capacity]
            /\ capacity' = 0
            /\ pc' = [pc EXCEPT ![t] = "d_buf"]
            /\ lastOp' = NoOp
    /\ phase' = "other"
    /\ shadow' = ZeroData
    /\ lastSet' = NoSet
    /\ UNCHANGED <<config, life, buffer, heap, panicked, origCap>>

\* a deallocate that loads the buffer where the code swaps it to empty
DeallocKeepsBuffer(p) == p

\* the value self.buffer.swap(empty(), ordering) leaves in a buffer field p
DeallocStores(p) == empty

\* self.buffer.swap(empty(), ordering)
DeallocSwapBuf(t) ==
    /\ pc[t] = "d_buf"
    /\ loc' = [loc EXCEPT ![t].ptr = buffer]
    /\ buffer' = DeallocStores(buffer)
    /\ pc' = [pc EXCEPT ![t] = "d_free"]
    /\ UNCHANGED <<config, life, capacity, heap, calls, panicked, lastCall,
                   lastOp, lastSet, lastGet, origCap, shadow, phase, obs, race>>

\* the debug_assert!(capacity != 0) of deallocate(old, capacity) fails
DeallocAssertFails(t) == debug /\ loc[t].old = 0

\* deallocate(buffer, capacity): the assertions, the size, heap::deallocate
DeallocHeap(t) ==
    /\ pc[t] = "d_free"
    /\ LET p == loc[t].ptr
           size == deallocate_size(loc[t].old)
       IN IF DeallocAssertFails(t) \/ size = Overflow
          THEN /\ Panic(t, IF loc[t].dropping THEN "drop!" ELSE "deallocate!")
               /\ UNCHANGED <<heap, calls, lastCall>>
          ELSE /\ heap' = HeapDeallocate(heap, p)
               /\ lastCall' = Rec([fn |-> "deallocate", blk |-> p, size |-> size,
                               newsize |-> 0, prior |-> PriorOf(heap, p),
                               actual |-> ActualOf(heap, p), cap |-> loc[t].old], NoCall)
               /\ calls' = Rec([calls EXCEPT ![t] = @ + 1], calls)
               /\ pc' = [pc EXCEPT ![t] = "idle"]
               /\ loc' = [loc EXCEPT ![t] = NoLocals]
               /\ lastOp' = [op |-> IF loc[t].dropping THEN "drop" ELSE "deallocate",
                             pre |-> p, precap |-> loc[t].old, cap |-> 0]
               /\ UNCHANGED <<panicked, phase, shadow>>
    /\ life' = IF loc[t].dropping THEN "dropped" ELSE life
    /\ UNCHANGED <<config, capacity, buffer, lastSet, lastGet, origCap, obs, race>>

\* ---------------------------------------------------------------- drop
\* a drop without the test of the capacity
DropSkipsCapacityTest == sizeOf = 0

\* drop returns before it calls deallocate
DropReturnsEarly == sizeOf = 0 \/ capacity = 0

\* Drop::drop: the size_of test and the load of the capacity.  The owner drops
\* the buffer when it goes out of scope or when a panic unwinds.
Drop(t) ==
    /\ life = "alive"
    /\ t = Owner
    /\ AllIdle
    /\ Begin(t)
    /\ IF DropReturnsEarly
       THEN /\ life' = "dropped"
            /\ lastOp' = [op |-> "drop", pre |-> buffer, precap |-> capacity, cap |-> 0]
            /\ UNCHANGED <<pc, loc>>
       ELSE /\ pc' = [pc EXCEPT ![t] = "x_dealloc"]
            /\ loc' = [loc EXCEPT ![t] = [NoLocals EXCEPT !.dropping = TRUE]]
            /\ lastOp' = NoOp
            /\ UNCHANGED life
    /\ phase' = "other"
    /\ shadow' = ZeroData
    /\ lastSet' = NoSet
    /\ obs' = NoObs
    /\ race' = NoRace
    /\ UNCHANGED <<config, capacity, buffer, heap, panicked, origCap>>

\* ---------------------------------------------------------------- observers
\* the reallocates (1) and deallocates (2) of other threads that are in
\* flight when thread t reads the capacity
Overlap(t) ==
    IF \E u \in Threads \ {t} : pc[u] \in DeallocPcs THEN 2
    ELSE IF \E u \in Threads \ {t} : pc[u] \in ReallocPcs THEN 1
    ELSE 0

\* a thread that polls the buffer: buffer.capacity().load(ordering); the
\* model follows one such reader at a time
ObserveCapacity(t) ==
    /\ CanStart(t)
    /\ \A u \in Threads : pc[u] # "o_ptr"
    /\ pc' = [pc EXCEPT ![t] = "o_ptr"]
    /\ loc' = [loc EXCEPT ![t] = [NoLocals EXCEPT !.old = capacity]]
    /\ obs' = Conc([st |-> "cap", cap |-> capacity, ptr |-> 0, n |-> Overlap(t)], NoObs)
    /\ race' = NoRace
    /\ UNCHANGED <<config, life, capacity, buffer, heap, calls, panicked, lastCall,
                   lastOp, lastSet, lastGet, origCap, shadow, phase>>

\* and afterwards buffer.buffer().load(ordering)
ObservePointer(t) ==
    /\ pc[t] = "o_ptr"
    /\ pc' = [pc EXCEPT ![t] = "idle"]
    /\ loc' = [loc EXCEPT ![t] = NoLocals]
    /\ obs' = Conc([obs EXCEPT !.st = "done", !.ptr = buffer], NoObs)
    /\ UNCHANGED <<config, life, capacity, buffer, heap, calls, panicked, lastCall,
                   lastOp, lastSet, lastGet, origCap, shadow, phase, race>>

\* ---------------------------------------------------------------- Next
Next ==
    \/ Construct
    \/ BufferEmpty
    \/ \E t \in Threads :
        \/ \E i \in Indices : Get(t, i)
        \/ \E i \in Indices : \E v \in Values : SetLoad(t, i, v)
        \/ SetWrite(t)
        \/ \E n \in Caps : ReallocSwap(t, n)
        \/ ReallocAllocate(t)
        \/ ReallocLoad(t)
        \/ ReallocHeap(t)
        \/ ReallocStorePtr(t)
        \/ ReallocStoreCap(t)
        \/ DeallocSwapCap(t)
        \/ DeallocSwapBuf(t)
        \/ DeallocHeap(t)
        \/ Drop(t)
        \/ ObserveCapacity(t)
        \/ ObservePointer(t)

Spec == Init /\ [][Next]_vars

SpecObs == InitObs /\ [][Next]_vars

SpecRace == InitRace /\ [][Next]_vars


\* ================================================================ claims
\* no operation is in progress on a constructed buffer of a sized type
Quiescent == life = "alive" /\ AllIdle /\ ~panicked /\ sizeOf > 0

\* C1: for a non-zero-sized element type, whenever no operation is in
\* progress, the capacity field is 0 if and only if the pointer field is the
\* sentinel address.
C1_CapacityZeroIffEmpty == Quiescent => (capacity = 0 <=> buffer = empty)

\* C2: for a non-zero-sized element type, whenever no operation is in
\* progress and the capacity field is n > 0, the pointer field addresses a
\* live block of exactly n * size_of(T) bytes.
C2_CapacitySizesBlock ==
    (Quiescent /\ capacity > 0) =>
        (Live(heap, buffer) /\ heap[buffer].size = capacity * sizeOf)

\* the slots 0..k-1 written since Buffer::allocate, as far as both the old
\* and the new capacity cover them
WrittenPrefix ==
    {i \in Indices : /\ i < Min(origCap, capacity)
                     /\ \A j \in 0 .. i : shadow[j] # Uninit}

\* C3: a buffer made by Buffer::allocate(old_capacity), old_capacity > 0, whose
\* slots 0..k-1 were written by set, k <= min(old_capacity, new_capacity),
\* holds after reallocate(new_capacity) the written value in every slot i < k.
C3_ReallocatePreserves ==
    (Quiescent /\ phase = "resized" /\ origCap > 0) =>
        \A i \in WrittenPrefix : ReadSlot(heap, buffer, i) = shadow[i]

\* C4: after Buffer::allocate(capacity), capacity > 0, a set(i, v) with
\* i < capacity writes inside the live block the pointer refers to, and a
\* following get(i) addresses the same slot and reads v.
C4_SetThenGet ==
    (/\ Quiescent
     /\ phase = "fresh"
     /\ origCap > 0
     /\ lastSet # NoSet
     /\ lastSet.idx < origCap
     /\ lastGet.idx = lastSet.idx) =>
        (/\ lastSet.inb
         /\ lastGet.ptr = lastSet.ptr
         /\ lastGet.val = lastSet.val)

\* C5: for a non-zero-sized element type, once the buffer is dropped (after
\* any allocate, set, reallocate, deallocate calls that did not panic), no
\* block allocated for it is still live.
C5_DropReleasesAll ==
    (life = "dropped" /\ sizeOf > 0 /\ ~panicked) =>
        \A b \in Blocks : heap[b].st # "live"

\* C6: under serialized use no block is passed to heap::deallocate or
\* heap::reallocate after it was freed, and the block drop frees is live
\* when drop frees it.
C6_NoDoubleFree ==
    serial =>
        /\ lastCall.fn \in {"deallocate", "reallocate"} => lastCall.prior # "freed"
        /\ (lastOp.op = "drop" /\ lastCall.fn = "deallocate") => lastCall.prior = "live"

\* C6 witness: a buffer that was deallocated explicitly, freeing a live
\* block, has been dropped, and the drop made no allocator call.
C6_Witness ==
    /\ life = "dropped"
    /\ lastOp.op = "drop"
    /\ lastOp.precap = 0
    /\ calls[Owner] = 0
    /\ \E b \in Blocks : heap[b].st = "freed"
    /\ \A b \in Blocks : heap[b].st # "live"

\* C7: every allocation request made for a capacity asks the allocator for
\* exactly capacity * size_of(T) bytes.
C7_AllocateAsksCapacityBytes ==
    lastCall.fn = "allocate" => lastCall.size = lastCall.cap * sizeOf

\* C8: whenever a live block is handed back to the allocator (to
\* heap::reallocate or heap::deallocate), the byte size passed with it is
\* the size the block was last allocated or reallocated with.
C8_HandsBackTrueSize ==
    (lastCall.fn \in {"reallocate", "deallocate"} /\ lastCall.prior = "live") =>
        lastCall.size = lastCall.actual

\* C9: deallocate on a buffer whose capacity is 0 and whose pointer is the
\* sentinel trips no assertion, makes no allocator call and leaves capacity 0
\* and the pointer equal to the sentinel.
C9_DeallocateEmptyNoOp ==
    (/\ lastOp.op \in {"deallocate", "deallocate!"}
     /\ lastOp.precap = 0
     /\ lastOp.pre = empty) =>
        (/\ lastOp.op = "deallocate"
         /\ calls[Owner] = 0
         /\ capacity = 0
         /\ buffer = empty)

\* C10: for a non-zero-sized element type, deallocate on a buffer whose
\* pointer refers to a live block frees that block, once, and ends with the
\* pointer equal to the sentinel and the capacity 0.
C10_DeallocateFreesBlock ==
    (/\ sizeOf > 0
     /\ lastOp.op \in {"deallocate", "deallocate!"}
     /\ IsBlock(lastOp.pre)) =>
        (/\ lastOp.op = "deallocate"
         /\ heap[lastOp.pre].st = "freed"
         /\ calls[Owner] = 1
         /\ lastCall.fn = "deallocate"
         /\ lastCall.blk = lastOp.pre
         /\ lastCall.prior = "live"
         /\ buffer = empty
         /\ capacity = 0)


\* C11: whenever capacity * size_of(T) overflows uint, the operation panics
\* before any call to the allocator: no allocation or reallocation is
\* requested on behalf of such a capacity.
C11_OverflowPanicsBeforeAllocator ==
    lastCall.fn \in {"allocate", "reallocate"} => lastCall.cap * sizeOf < Word

\* C12: for capacity > 0 and element size s > 0, allocation_size(capacity)
\* panics exactly when capacity * s >= 2^w and otherwise returns capacity * s.
C12_AllocationSizeExact ==
    /\ \A t \in Threads : pc[t] = "r_heap" =>
          \A c \in {loc[t].old, loc[t].arg} :
             (c > 0 /\ sizeOf > 0) =>
                 IF c * sizeOf >= Word
                 THEN allocation_size(c) = Overflow
                 ELSE allocation_size(c) = c * sizeOf
    /\ lastCall.fn = "reallocate" =>
          (lastCall.newsize = lastCall.cap * sizeOf /\ lastCall.newsize < Word)
    /\ (lastOp.op = "reallocate!" /\ lastOp.precap > 0) =>
          (lastOp.cap * sizeOf >= Word \/ lastOp.precap * sizeOf >= Word)

\* C12 witness: a reallocate to the largest capacity of a two-byte element
\* type panicked in allocation_size.
C12_Witness ==
    /\ lastOp.op = "reallocate!"
    /\ lastOp.precap > 0
    /\ lastOp.cap = Huge
    /\ sizeOf = 2

\* C13: for a zero-sized element type no operation calls the allocator or
\* panics, and the pointer field stays the sentinel and the capacity field 0.
C13_ZeroSizedNeverAllocates ==
    sizeOf = 0 =>
        /\ buffer = empty
        /\ capacity = 0
        /\ lastCall = NoCall
        /\ \A t \in Threads : calls[t] = 0
        /\ \A b \in Blocks : heap[b].st = "unused"
        /\ ~panicked
        /\ lastOp.op \notin {"reallocate!", "deallocate!", "drop!"}

\* C13 witness: a zero-sized buffer made with the largest capacity has
\* completed a reallocate.
C13_Witness ==
    /\ sizeOf = 0
    /\ origCap = Huge
    /\ life = "alive"
    /\ lastOp.op = "reallocate"

\* C14: Buffer::allocate(0) and Buffer::empty() both give capacity 0 and the
\* sentinel pointer with no allocator call; Buffer::allocate(capacity) calls
\* the allocator once when capacity > 0 and T is sized, and not at all otherwise.
C14_AllocateCallsOnceOrNever ==
    (life = "alive" /\ lastOp.op \in {"allocate", "empty"}) =>
        IF lastOp.cap > 0 /\ sizeOf > 0
        THEN /\ calls[Owner] = 1
             /\ lastCall.fn = "allocate"
             /\ lastCall.blk = buffer
             /\ Cardinality({b \in Blocks : heap[b].st # "unused"}) = 1
        ELSE /\ calls[Owner] = 0
             /\ lastCall = NoCall
             /\ buffer = empty
             /\ capacity = 0
             /\ \A b \in Blocks : heap[b].st = "unused"

\* C14 witness: Buffer::empty() has returned a buffer of a sized type.
C14_Witness ==
    /\ life = "alive"
    /\ lastOp.op = "empty"
    /\ sizeOf > 0
    /\ buffer = empty

\* C15: dropping a buffer whose capacity field is 0, or whose element type
\* is zero-sized, calls the allocator not at all and leaves the capacity and
\* the pointer field as they were.
C15_DropOfEmptyIsNoOp ==
    (lastOp.op \in {"drop", "drop!"} /\ (lastOp.precap = 0 \/ sizeOf = 0)) =>
        /\ lastOp.op = "drop"
        /\ calls[Owner] = 0
        /\ lastCall = NoCall
        /\ capacity = lastOp.precap
        /\ buffer = lastOp.pre

\* C15 witness: a sized buffer whose capacity field was 0 while its pointer
\* field held a block has been dropped.
C15_Witness ==
    /\ life = "dropped"
    /\ lastOp.op = "drop"
    /\ lastOp.precap = 0
    /\ sizeOf > 0
    /\ IsBlock(lastOp.pre)


\* the reallocate of the owner has its new pointer in hand, or has returned
\* and nothing began since
ReallocateDecided ==
    \/ pc[Owner] \in {"r_store", "r_cap"}
    \/ pc[Owner] = "idle" /\ lastOp.op = "reallocate" /\ sizeOf > 0

NewCapacity == IF pc[Owner] = "idle" THEN lastOp.cap ELSE loc[Owner].arg

OldCapacity == IF pc[Owner] = "idle" THEN lastOp.precap ELSE loc[Owner].old

NewPointer == IF pc[Owner] = "idle" THEN buffer ELSE loc[Owner].ptr

\* a reader read the capacity, then the pointer, while at most one reallocate
\* and no deallocate ran, and the capacity it read is that reallocate's argument
ReadNewCapacity ==
    /\ obs.st = "done"
    /\ obs.n <= 1
    /\ ReallocateDecided
    /\ obs.cap = NewCapacity

\* reallocate takes its atomic steps in the order swap, load, store, store
ReallocateStepOrder ==
    \A t \in Threads :
        /\ pc[t] \in ReallocPcs => capacity = 0
        /\ pc[t] \in {"r_load", "r_heap"} => loc[t].old # 0
        /\ pc[t] = "r_alloc" => loc[t].old = 0
        /\ pc[t] = "r_cap" => buffer = loc[t].ptr
        /\ (Idle(t) /\ t = Owner /\ lastOp.op = "reallocate" /\ sizeOf > 0) =>
               capacity = lastOp.cap

\* C16 as stated: reallocate swaps the capacity to 0, loads the old pointer
\* (only when the old capacity was nonzero), stores the new pointer, stores
\* new_capacity, and ends with capacity == new_capacity; with one reallocate
\* in flight, a reader that reads capacity == new_capacity and then the
\* pointer gets the new pointer.
C16_ReaderOfNewCapacityGetsNewPointer ==
    /\ ReallocateStepOrder
    /\ ReadNewCapacity => obs.ptr = NewPointer

\* C16 amended: the same, for a reallocate whose new_capacity differs from
\* the capacity the buffer had when it was called.
C16_ReaderOfChangedCapacityGetsNewPointer ==
    /\ ReallocateStepOrder
    /\ (ReadNewCapacity /\ OldCapacity # NewCapacity) => obs.ptr = NewPointer

\* C16 witness: the other thread read the new capacity and the new pointer
\* of a reallocate that changed the capacity and moved the block.
C16_Witness ==
    /\ ReadNewCapacity
    /\ OldCapacity \notin {0, NewCapacity}
    /\ pc[Owner] = "idle"
    /\ obs.ptr = buffer
    /\ \E b \in Blocks : heap[b].st = "freed"

\* C17: two reallocates that overlap on a buffer that holds a live block with
\* a nonzero capacity, both run to their end, leave one more block live than
\* there was and a live block that the pointer field does not hold (a leak);
\* and while one thread is inside reallocate nothing keeps the other from
\* beginning a reallocate or a deallocate.
C17_RacingReallocatesLeak ==
    /\ (race.ops = 2 /\ race.sound /\ AllIdle /\ ~panicked) =>
          /\ Leaks(heap, buffer) # {}
          /\ Cardinality(LiveBlocks(heap)) > race.live
    /\ \A t \in Threads : \A u \in Threads \ {t} :
          (/\ ~serial
           /\ u \in writers
           /\ life = "alive"
           /\ ~panicked
           /\ pc[t] \in ReallocPcs
           /\ Idle(u)) =>
              /\ ENABLED ReallocSwap(u, 1)
              /\ ENABLED DeallocSwapCap(u)

\* C17 witness: two overlapping reallocates have returned and a block is
\* leaked.
C17_Witness ==
    /\ race.ops = 2
    /\ race.sound
    /\ AllIdle
    /\ ~panicked
    /\ Leaks(heap, buffer) # {}

\* C18: with one thread changing the structure and the other reading, in
\* every state, between the atomic steps too, a nonzero capacity field means
\* the pointer field holds a live block; the capacity is 0 from the swap of
\* reallocate or deallocate until reallocate's last store.
C18_NonzeroCapacityMeansLive ==
    /\ (sizeOf > 0 /\ capacity # 0) => Live(heap, buffer)
    /\ \A t \in Threads :
          pc[t] \in (ReallocPcs \cup {"d_buf", "d_free"}) => capacity = 0

\* C18 witness: the other thread is between its two reads while the owner's
\* reallocate has moved the block: the pointer field holds a freed block and
\* the capacity field is 0.
C18_Witness ==
    /\ pc[Owner] = "r_store"
    /\ \E t \in Threads \ {Owner} : pc[t] = "o_ptr"
    /\ capacity = 0
    /\ IsBlock(buffer)
    /\ heap[buffer].st = "freed"

\* C19: when exactly two reallocates overlap on a buffer whose capacity is
\* nonzero and nothing else runs, the swap gives the nonzero capacity to
\* exactly one of them, at most one call of heap::reallocate is given the old
\* block, at most one thread is on the path that loads the pointer, and the
\* old block is freed at most once.
C19_OneSwapWins ==
    race.ops = 2 =>
        /\ race.nz = 1
        /\ race.passed <= 1
        /\ race.freed <= 1
        /\ Cardinality({t \in Threads : pc[t] \in {"r_load", "r_heap"}}) <= 1

\* C19 witness: one of two overlapping reallocates gave the old block to
\* heap::reallocate while the other is on the path that allocates afresh.
C19_Witness ==
    /\ race.ops = 2
    /\ race.nz = 1
    /\ race.passed = 1
    /\ \E t \in Threads : pc[t] = "r_alloc" /\ loc[t].old = 0

====
